---- MODULE Spec2Model ----
(***************************************************************************)
(* A model of build_map.py: the one-shot generator that scans a directory  *)
(* of spreadsheets, extracts park records, writes per-park detail pages    *)
(* and composes the interactive map.                                       *)
(*                                                                         *)
(* Text is a sequence of one-character strings.  The character "zh" stands *)
(* for one CJK ideograph of the range U+4E00..U+9FFF.                      *)
(***************************************************************************)
EXTENDS Integers, Sequences, FiniteSets, TLC

VARIABLES
    pc,         \* position of main()
    m,          \* the folium map: the names of the layers added, in order
    fg_school,  \* points of the feature group "school"
    fg_center,  \* points of the feature group "park centers"
    fg_target,  \* markers of the target-park feature group
    count,      \* main()'s counter of loaded parks
    fs,         \* the files under OUTPUT_DIR: file name -> page
    log,        \* the warnings printed so far
    scanned,    \* number of files of all_excels the loop has gone through
    cur,        \* the file of the last loop iteration (and what the environment did)
    ret,        \* what read_park_xlsx returned for cur
    sheetIn,    \* the sheet the school / center loader has just read
    saved,      \* index.html has been written
    slugIn,     \* safe_slug: the input text
    slugOut,    \* safe_slug(slugIn)
    slugOut2,   \* safe_slug(slugOut)
    slugPc,     \* how many times safe_slug has been applied
    returned    \* history: the files for which read_park_xlsx returned a record

vars == <<pc, m, fg_school, fg_center, fg_target, count, fs, log, scanned,
          cur, ret, sheetIn, saved, slugIn, slugOut, slugOut2, slugPc, returned>>

\* ------------------------------------------------------------------ bounds
MaxLen == 3        \* longest text given to safe_slug
MaxFiles == 2      \* most spreadsheets main() scans in a run
MaxParks == 1      \* most spreadsheets scanned when every file content is tried
MaxRows == 2       \* most rows of a measurement sheet
MaxLayerRows == 2  \* most rows of the school / park-center sheets

\* ------------------------------------------------------------------ text
Alphabet == {"a", "zh", "-", "_", ".", " ", "\t", "/"}

\* str.isspace() / the regular expression class \s
IsSpace(c) == c \in {" ", "\t"}

\* the regular expression class \w (Unicode): letters, digits, underscore;
\* CJK ideographs are letters
IsWord(c) == c \in {"a", "b", "f", "n", "1", "2", "3", "4", "_", "zh"}

\* the range 一-鿿
IsCJK(c) == c = "zh"

\* a character the class [^\w一-鿿\-_.] does NOT match
Kept(c) == IsWord(c) \/ IsCJK(c) \/ c \in {"-", "_", "."}

RECURSIVE LStrip(_)
LStrip(s) ==
    IF s = <<>> THEN <<>>
    ELSE IF IsSpace(Head(s)) THEN LStrip(Tail(s)) ELSE s

RECURSIVE RStrip(_)
RStrip(s) ==
    IF s = <<>> THEN <<>>
    ELSE IF IsSpace(s[Len(s)]) THEN RStrip(SubSeq(s, 1, Len(s) - 1)) ELSE s

\* str.strip()
Strip(s) == RStrip(LStrip(s))

\* re.sub(r"\s+", "_", text): every maximal run of whitespace becomes one "_"
RECURSIVE SubSpaces(_)
SubSpaces(s) ==
    IF s = <<>> THEN <<>>
    ELSE IF IsSpace(Head(s)) THEN <<"_">> \o SubSpaces(LStrip(Tail(s)))
    ELSE <<Head(s)>> \o SubSpaces(Tail(s))

SubUnsafeKeepAll(s) == s

\* re.sub(r"[^\w一-鿿\-_.]", "_", text): character by character
SubUnsafe(s) == [i \in 1..Len(s) |-> IF Kept(s[i]) THEN s[i] ELSE "_"]

safe_slug(text) == SubUnsafe(SubSpaces(Strip(text)))

\* the texts of at most n characters
RECURSIVE Texts(_)
Texts(n) ==
    IF n = 0 THEN {<<>>}
    ELSE LET shorter == Texts(n - 1)
         IN  shorter \cup {Append(t, c) : t \in {u \in shorter : Len(u) = n - 1}, c \in Alphabet}

\* ------------------------------------------------------------------ cells
\* A spreadsheet cell as pandas hands it over: k = "nan" is an empty cell,
\* "str" a text that is not a number, "num" a number; "none" is Python's None
\* (the key or the column is not there).  t is str(cell).
None == [k |-> "none", n |-> 0, t |-> <<"N", "o", "n", "e">>]
NaN == [k |-> "nan", n |-> 0, t |-> <<"n", "a", "n">>]
Str(text) == [k |-> "str", n |-> 0, t |-> text]
Num(x) == [k |-> "num", n |-> x, t |-> <<"#">>]

\* float(v): raises on None (TypeError) and on a non-numeric text
\* (ValueError); an empty cell is the float nan and converts to nan
FloatRaises(v) == v.k \in {"none", "str"}
Float(v) == [nan |-> v.k = "nan", n |-> v.n]

\* dict.get(key, default)
Get(d, key, default) == IF key \in DOMAIN d THEN d[key] ELSE default

\* get_str of read_park_xlsx over the dictionary d
get_str(d, key, default) ==
    LET v == Get(d, key, Str(default))
    IN  IF v.k = "none" THEN <<>> ELSE v.t

\* the keys of the basic-info sheet: "name" is 工業區名稱, "lon" is
\* 工業區中心經度, "lat" is 工業區中心緯度
InfoKeys == {"name", "lon", "lat"}

\* the dictionary of a basic-info sheet whose rows hold the given cells
\* (None: the sheet has no row of that key)
InfoDict(name, lon, lat) ==
    LET all == [key \in InfoKeys |->
                    IF key = "name" THEN name ELSE IF key = "lon" THEN lon ELSE lat]
    IN  [key \in {x \in InfoKeys : all[x].k # "none"} |-> all[key]]

\* ------------------------------------------------------------------ measurement sheets
\* A measurement sheet: whether it has a StartTime column, and one cell per row
\* (the row's StartTime when the column is there).
NoSheet == [present |-> FALSE, startTime |-> FALSE, rows |-> <<>>]
Sheet(st, rows) == [present |-> TRUE, startTime |-> st, rows |-> rows]

\* sort_values compares the cells that are not empty: a column holding both
\* numbers and texts raises TypeError
SortRaises(rows) ==
    /\ \E i \in 1..Len(rows) : rows[i].k = "num"
    /\ \E i \in 1..Len(rows) : rows[i].k = "str"

\* a <= b for two cells of one kind (all texts of the model are the same text)
CellLe(a, b) == IF a.k = "num" /\ b.k = "num" THEN a.n <= b.n ELSE TRUE

\* the rows of the set left that no row of left goes before
Least(rows, left) == {i \in left : \A j \in left : CellLe(rows[i], rows[j])}

\* the orders in which sorting can put the rows of left: a least row first,
\* any of them when several are equal (quicksort is not stable)
RECURSIVE SortedOrders(_, _)
SortedOrders(rows, left) ==
    IF left = {} THEN {<<>>}
    ELSE UNION {{<<i>> \o rest : rest \in SortedOrders(rows, left \ {i})} :
                   i \in Least(rows, left)}

\* the members of the set of numbers left, ascending
RECURSIVE Ascending(_)
Ascending(left) ==
    IF left = {} THEN <<>>
    ELSE LET i == CHOOSE x \in left : \A y \in left : x <= y
         IN  <<i>> \o Ascending(left \ {i})

SortKeepsOrder(rows) == {[i \in 1..Len(rows) |-> i]}

\* DataFrame.sort_values("StartTime") with its defaults (kind "quicksort",
\* na_position "last"), as the orders of the row numbers it can produce: the
\* rows that have a value are sorted, the rows with an empty cell follow in the
\* order of the sheet
SortOutcomes(rows) ==
    LET empty == {i \in 1..Len(rows) : rows[i].k = "nan"}
    IN  {p \o Ascending(empty) : p \in SortedOrders(rows, (1..Len(rows)) \ empty)}

\* the row orders of the frame handed to to_html (lines 79-81)
TableOrders(sheet) ==
    IF sheet.startTime /\ ~SortRaises(sheet.rows)
    THEN SortOutcomes(sheet.rows)
    ELSE {[i \in 1..Len(sheet.rows) |-> i]}

\* ------------------------------------------------------------------ read_park_xlsx
\* "_meas.html" stands for the suffix "_量測資料.html"
MeasSuffix == <<"_meas.html">>

MeasFilenameRaw(park_name) == park_name \o MeasSuffix

MeasFilename(park_name) == safe_slug(park_name) \o MeasSuffix

\* Path.name of the file f
PathName(f) == f.stem \o <<".xlsx">>

Href(filename) == <<"./data/">> \o filename

NoRecord == [some |-> FALSE, park_name |-> <<>>, lon |-> Float(NaN), lat |-> Float(NaN),
             raw_page_href |-> <<>>]

Record(park_name, lon, lat, href) ==
    [some |-> TRUE, park_name |-> park_name, lon |-> lon, lat |-> lat, raw_page_href |-> href]

\* what one call does: the value returned, the files of OUTPUT_DIR afterwards,
\* the warnings printed
Result(r, files, warnings) == [ret |-> r, fs |-> files, log |-> warnings]

CoordWarning(park_name, file) == [kind |-> "coord", park |-> park_name, file |-> file]
MeasWarning(park_name) == [kind |-> "meas", park |-> park_name, file |-> <<>>]
OpenWarning(file) == [kind |-> "open", park |-> <<>>, file |-> file]

\* the page written by write_text (src: the spreadsheet it was made from;
\* table: the numbers of the sheet's rows in the order of the rendered table)
Page(src, park_name, table) == [src |-> src, title |-> park_name, table |-> table, whole |-> TRUE]
PartialPage(src) == [src |-> src, title |-> <<>>, table |-> <<>>, whole |-> FALSE]

WriteFile(files, name, page) ==
    [x \in DOMAIN files \cup {name} |-> IF x = name THEN page ELSE files[x]]

MeasFailedRejects(park_name, lon, lat, files) ==
    Result(NoRecord, files, <<MeasWarning(park_name)>>)

\* lines 105-106, then the return of line 108: the except clause prints the
\* warning and the record is returned with raw_page_href still ""
MeasFailed(park_name, lon, lat, files) ==
    Result(Record(park_name, lon, lat, <<>>), files, <<MeasWarning(park_name)>>)

\* lines 76-116.  f.env is where the environment makes the step fail: "read"
\* (read_excel raises), "mkdir", "render" (to_html), "write" (write_text raises
\* and leaves no file), "writepart" (write_text raises after the file was
\* opened: a truncated file is left), or "none".  order is the row order
\* sort_values produced.
MeasStep(f, park_name, lon, lat, files, order) ==
    IF ~f.meas.present
    THEN Result(Record(park_name, lon, lat, <<>>), files, <<>>)
    ELSE IF f.env = "read" \/ (f.meas.startTime /\ SortRaises(f.meas.rows))
            \/ f.env \in {"mkdir", "render", "write"}
    THEN MeasFailed(park_name, lon, lat, files)
    ELSE IF f.env = "writepart"
    THEN MeasFailed(park_name, lon, lat,
                    WriteFile(files, MeasFilename(park_name), PartialPage(f.id)))
    ELSE Result(Record(park_name, lon, lat, Href(MeasFilename(park_name))),
                WriteFile(files, MeasFilename(park_name), Page(f.id, park_name, order)),
                <<>>)

\* lines 63-73, then MeasStep
AfterOpen(f, files, order) ==
    LET park_name == get_str(f.info, "name", f.stem)
        lonCell == Get(f.info, "lon", None)
        latCell == Get(f.info, "lat", None)
    IN  IF FloatRaises(lonCell) \/ FloatRaises(latCell)
        THEN Result(NoRecord, files, <<CoordWarning(park_name, PathName(f))>>)
        ELSE MeasStep(f, park_name, Float(lonCell), Float(latCell), files, order)

\* lines 49-61 succeed: the file opens, has the sheet 工業區基本資料, and the
\* sheet has two columns ("short": it has fewer, df.columns[1] raises)
Opened(f) == f.open = "ok"

read_park_xlsx_warns(f, files, order) ==
    IF ~Opened(f) THEN Result(NoRecord, files, <<OpenWarning(PathName(f))>>)
    ELSE AfterOpen(f, files, order)

read_park_xlsx(f, files, order) ==
    IF ~Opened(f) THEN Result(NoRecord, files, <<>>)
    ELSE AfterOpen(f, files, order)

\* ------------------------------------------------------------------ create_popup_html
\* the popup: pid (the element ids), link (the href of the button; <<>> when
\* there is no button) and the data-park, data-lat, data-lon attributes
create_popup_html(park) ==
    [pid |-> safe_slug(park.park_name),
     link |-> IF park.raw_page_href # <<>> THEN park.raw_page_href ELSE <<>>,
     park |-> park.park_name, lat |-> park.lat, lon |-> park.lon]

\* folium's validate_location, called by Marker and CircleMarker: raises
\* ValueError when a coordinate is not a number or is nan
LocationRaises(lat, lon) == lat.k # "num" \/ lon.k # "num"

\* the same validation on the floats of a park record
FloatLocationRaises(lat, lon) == lat.nan \/ lon.nan

\* folium.Marker of lines 214-219 (src: the spreadsheet the record came from)
Marker(data, src) ==
    [location |-> <<data.lat.n, data.lon.n>>, popup |-> create_popup_html(data),
     tooltip |-> data.park_name, src |-> src]

TruthyWithLink(data) == data.some /\ data.raw_page_href # <<>>

\* "if data:" of line 211: None is false, the record (a non-empty dict) true
Truthy(data) == data.some

\* ------------------------------------------------------------------ school and center sheets
\* A sheet of the school list or of the park-center list: the columns it has
\* ("lat" is N or 座標(緯度), "lon" is E or 座標(經度)) and, per row, the two cells.
NoLayerSheet == [cols |-> {}, rows |-> <<>>]

\* Series.get(column): None when the sheet has no such column
RowGet(sheet, i, col) == IF col \in sheet.cols THEN sheet.rows[i][col] ELSE None

\* pd.notnull
NotNull(v) == v.k \notin {"none", "nan"}

\* one row of the loops of lines 178-180 and 189-192
RowValid(sheet, i) == NotNull(RowGet(sheet, i, "lat")) /\ NotNull(RowGet(sheet, i, "lon"))
RowRaises(sheet, i) ==
    RowValid(sheet, i) /\ LocationRaises(RowGet(sheet, i, "lat"), RowGet(sheet, i, "lon"))
Point(sheet, i) == [row |-> i, lat |-> sheet.rows[i]["lat"].n, lon |-> sheet.rows[i]["lon"].n]

\* The points the loop adds from row i on.  The try statement encloses the whole
\* loop: the row on which CircleMarker raises ends the loop, and the bare
\* except discards the exception.
RECURSIVE LayerPoints(_, _)
LayerPoints(sheet, i) ==
    IF i > Len(sheet.rows) THEN <<>>
    ELSE IF ~RowValid(sheet, i) THEN LayerPoints(sheet, i + 1)
    ELSE IF RowRaises(sheet, i) THEN <<>>
    ELSE <<Point(sheet, i)>> \o LayerPoints(sheet, i + 1)

LayerCells == {NaN, Str(<<"a">>), Num(1)}

RECURSIVE LayerRowSeqs(_)
LayerRowSeqs(n) ==
    IF n = 0 THEN {<<>>}
    ELSE LET shorter == LayerRowSeqs(n - 1)
         IN  shorter \cup {Append(r, [lat |-> a, lon |-> b]) :
                              r \in {u \in shorter : Len(u) = n - 1},
                              a \in LayerCells, b \in LayerCells}

\* every sheet of at most MaxLayerRows rows, and the sheets of one row that
\* have no latitude column
AllLayerSheets ==
    {[cols |-> {"lat", "lon"}, rows |-> r] : r \in LayerRowSeqs(MaxLayerRows)}
    \cup {[cols |-> {"lon"}, rows |-> r] : r \in {u \in LayerRowSeqs(1) : Len(u) = 1}}

\* one sheet of one row
SmallLayerSheets == {[cols |-> {"lat", "lon"}, rows |-> <<[lat |-> Num(1), lon |-> Num(1)]>>]}

\* ------------------------------------------------------------------ main: background layers
CountyWarning == [kind |-> "county", park |-> <<>>, file |-> <<>>]

\* lines 158-164; st: the file is absent, loads, or makes fiona / GeoJson raise
LoadCounty ==
    /\ pc = "county"
    /\ \E st \in {"absent", "ok", "bad"} :
        /\ m' = IF st = "ok" THEN Append(m, "county") ELSE m
        /\ log' = IF st = "bad" THEN Append(log, CountyWarning) ELSE log
    /\ pc' = "industrial"
    /\ UNCHANGED <<fg_school, fg_center, fg_target, count, fs, scanned, cur, ret,
                   sheetIn, saved, slugIn, slugOut, slugOut2, slugPc, returned>>

\* lines 167-171
LoadIndustrial ==
    /\ pc = "industrial"
    /\ \E st \in {"absent", "ok", "bad"} :
        m' = IF st = "ok" THEN Append(m, "industrial") ELSE m
    /\ pc' = "school"
    /\ UNCHANGED <<fg_school, fg_center, fg_target, count, fs, log, scanned, cur, ret,
                   sheetIn, saved, slugIn, slugOut, slugOut2, slugPc, returned>>

\* lines 174-182; the file is absent or unreadable (no sheet is read), or holds
\* one of the given sheets
LoadSchool(sheets) ==
    /\ pc = "school"
    /\ \E sheet \in sheets \cup {NoLayerSheet} :
        /\ sheetIn' = sheet
        /\ fg_school' = LayerPoints(sheet, 1)
    /\ m' = Append(m, "school")
    /\ pc' = "center"
    /\ UNCHANGED <<fg_center, fg_target, count, fs, log, scanned, cur, ret,
                   saved, slugIn, slugOut, slugOut2, slugPc, returned>>

\* lines 185-194
LoadCenter(sheets) ==
    /\ pc = "center"
    /\ \E sheet \in sheets \cup {NoLayerSheet} :
        /\ sheetIn' = sheet
        /\ fg_center' = LayerPoints(sheet, 1)
    /\ m' = Append(m, "center")
    /\ pc' = "scan"
    /\ UNCHANGED <<fg_school, fg_target, count, fs, log, scanned, cur, ret,
                   saved, slugIn, slugOut, slugOut2, slugPc, returned>>

\* ------------------------------------------------------------------ the scanned spreadsheets
Digits == <<"1", "2", "3", "4">>

\* Path.stem of the id-th file of all_excels
Stem(id) == <<"f", Digits[id]>>

MeasCells == {Num(1), Num(2), NaN, Str(<<"a">>)}

RECURSIVE CellSeqs(_)
CellSeqs(n) ==
    IF n = 0 THEN {<<>>}
    ELSE LET shorter == CellSeqs(n - 1)
         IN  shorter \cup {Append(r, c) : r \in {u \in shorter : Len(u) = n - 1}, c \in MeasCells}

\* every measurement sheet of at most MaxRows rows, and no sheet
AllSheets ==
    {NoSheet} \cup {Sheet(TRUE, r) : r \in CellSeqs(MaxRows)}
              \cup {Sheet(FALSE, [i \in 1..n |-> Num(1)]) : n \in 0..MaxRows}

FirstSheet == Sheet(TRUE, <<Num(2), Num(1)>>)

Envs == {"none", "read", "mkdir", "render", "write", "writepart"}

\* What the scanned files are drawn from: the cells of the park name (None: no
\* such key), of the longitude and of the latitude, the measurement sheets, and
\* the ways the environment fails the measurement step.
AllContents ==
    [names |-> {None, NaN, Str(<<"a", " ", "b">>)},
     lons |-> {None, NaN, Str(<<"a">>), Num(120)},
     lats |-> {None, NaN, Str(<<"a">>), Num(23)},
     sheets |-> AllSheets,
     envs |-> Envs]

\* a smaller choice, with two park names of one slug
SmallContents ==
    [names |-> {None, Str(<<"a", " ", "b">>), Str(<<"a", "/", "b">>)},
     lons |-> {Num(120)},
     lats |-> {NaN, Str(<<"a">>), Num(23)},
     sheets |-> {NoSheet, FirstSheet, Sheet(TRUE, <<Num(1), Str(<<"a">>)>>),
                 Sheet(FALSE, <<Num(1)>>)},
     envs |-> Envs]

File(id, excluded, open, name, lon, lat, meas, env) ==
    [id |-> id, stem |-> Stem(id), excluded |-> excluded, open |-> open,
     info |-> InfoDict(name, lon, lat), meas |-> meas, env |-> env]

NoFile == File(1, TRUE, "none", None, None, None, NoSheet, "none")

\* The target files with the given coordinate cells.  Where the coordinates are
\* not two numbers the rest is not varied: the measurement sheet is absent or
\* FirstSheet, and the environment does not fail.  The environment fails the
\* measurement step of the files that hold FirstSheet.
TargetFiles(id, c, lon, lat) ==
    IF lon.k # "num" \/ lat.k # "num"
    THEN {File(id, FALSE, "ok", name, lon, lat, meas, "none") :
             name \in c.names, meas \in c.sheets \cap {NoSheet, FirstSheet}}
    ELSE {f \in {File(id, FALSE, "ok", name, lon, lat, meas, env) :
                    name \in c.names, meas \in c.sheets, env \in c.envs} :
             \/ f.env = "none"
             \/ f.meas = FirstSheet}

\* The contents the id-th file can have: a file of EXCLUDE_FILES, a file that
\* does not open ("unopenable"), has no basic-info sheet ("nosheet") or a
\* basic-info sheet of one column ("short"), or a target file.
Files(id, c) ==
    {File(id, TRUE, "ok", None, None, None, NoSheet, "none")}
    \cup {File(id, FALSE, o, None, None, None, NoSheet, "none") :
             o \in {"unopenable", "nosheet", "short"}}
    \cup UNION {TargetFiles(id, c, lon, lat) : lon \in c.lons, lat \in c.lats}

\* ------------------------------------------------------------------ main: the scan
\* One iteration of the loop of lines 204-220 over a file drawn from
\* Files(.., c); limit bounds len(all_excels).
ScanFile(c, limit) ==
    /\ pc = "scan"
    /\ scanned < limit
    /\ \E f \in Files(scanned + 1, c) : \E order \in TableOrders(f.meas) :
        LET r == IF f.excluded THEN Result(NoRecord, fs, <<>>)
                 ELSE read_park_xlsx(f, fs, order)
            raises == Truthy(r.ret) /\ FloatLocationRaises(r.ret.lat, r.ret.lon)
            adds == Truthy(r.ret) /\ ~raises
        IN  /\ cur' = f
            /\ ret' = r.ret
            /\ fs' = r.fs
            /\ log' = log \o r.log
            /\ returned' = IF r.ret.some THEN returned \cup {f.id} ELSE returned
            /\ fg_target' = IF adds THEN Append(fg_target, Marker(r.ret, f.id)) ELSE fg_target
            /\ count' = IF adds THEN count + 1 ELSE count
            /\ pc' = IF raises THEN "aborted" ELSE "scan"
    /\ scanned' = scanned + 1
    /\ UNCHANGED <<m, fg_school, fg_center, sheetIn, saved,
                   slugIn, slugOut, slugOut2, slugPc>>

\* lines 222-223: all_excels is exhausted
FinishScan ==
    /\ pc = "scan"
    /\ m' = Append(m, "target")
    /\ pc' = "save"
    /\ UNCHANGED <<fg_school, fg_center, fg_target, count, fs, log, scanned, cur, ret,
                   sheetIn, saved, slugIn, slugOut, slugOut2, slugPc, returned>>

\* lines 256-260: the script and the layer control are added and the map is
\* saved; m.save raises when index.html cannot be written
Save ==
    /\ pc = "save"
    /\ \E written \in BOOLEAN :
        /\ saved' = written
        /\ pc' = IF written THEN "done" ELSE "save_failed"
    /\ m' = m \o <<"script", "control">>
    /\ UNCHANGED <<fg_school, fg_center, fg_target, count, fs, log, scanned, cur, ret,
                   sheetIn, slugIn, slugOut, slugOut2, slugPc, returned>>

\* ------------------------------------------------------------------ safe_slug, applied twice
Slug1 ==
    /\ slugPc = "idle"
    /\ slugOut' = safe_slug(slugIn)
    /\ slugPc' = "once"
    /\ UNCHANGED <<pc, m, fg_school, fg_center, fg_target, count, fs, log, scanned,
                   cur, ret, sheetIn, saved, slugIn, slugOut2, returned>>

Slug2 ==
    /\ slugPc = "once"
    /\ slugOut2' = safe_slug(slugOut)
    /\ slugPc' = "twice"
    /\ UNCHANGED <<pc, m, fg_school, fg_center, fg_target, count, fs, log, scanned,
                   cur, ret, sheetIn, saved, slugIn, slugOut, returned>>

\* ------------------------------------------------------------------ specifications
\* main() is entered
MainStart ==
    /\ pc = "county"
    /\ m = <<>>
    /\ fg_school = <<>>
    /\ fg_center = <<>>
    /\ fg_target = <<>>
    /\ count = 0
    /\ fs = <<>>
    /\ log = <<>>
    /\ scanned = 0
    /\ cur = NoFile
    /\ ret = NoRecord
    /\ sheetIn = NoLayerSheet
    /\ saved = FALSE
    /\ returned = {}

SlugIdle ==
    /\ slugIn = <<>>
    /\ slugOut = <<>>
    /\ slugOut2 = <<>>
    /\ slugPc = "unused"

\* the whole run
Init == MainStart /\ SlugIdle

Next ==
    \/ LoadCounty
    \/ LoadIndustrial
    \/ LoadSchool(SmallLayerSheets)
    \/ LoadCenter(SmallLayerSheets)
    \/ ScanFile(SmallContents, MaxFiles)
    \/ FinishScan
    \/ Save

Spec == Init /\ [][Next]_vars

\* the background layers, over every sheet
LayerNext ==
    \/ LoadCounty
    \/ LoadIndustrial
    \/ LoadSchool(AllLayerSheets)
    \/ LoadCenter(AllLayerSheets)

LayerSpec == Init /\ [][LayerNext]_vars

\* the scan over every file content, entered with none of the four background
\* files on disk
ParkInit ==
    /\ pc = "scan"
    /\ m = <<"school", "center">>
    /\ fg_school = <<>>
    /\ fg_center = <<>>
    /\ fg_target = <<>>
    /\ count = 0
    /\ fs = <<>>
    /\ log = <<>>
    /\ scanned = 0
    /\ cur = NoFile
    /\ ret = NoRecord
    /\ sheetIn = NoLayerSheet
    /\ saved = FALSE
    /\ returned = {}
    /\ SlugIdle

ParkNext == ScanFile(AllContents, MaxParks)

ParkSpec == ParkInit /\ [][ParkNext]_vars

\* safe_slug on every text of at most MaxLen characters
SlugInit ==
    /\ MainStart
    /\ slugIn \in Texts(MaxLen)
    /\ slugOut = <<>>
    /\ slugOut2 = <<>>
    /\ slugPc = "idle"

SlugNext == Slug1 \/ Slug2

SlugSpec == SlugInit /\ [][SlugNext]_vars

\* ------------------------------------------------------------------ the last file scanned
\* read_park_xlsx was called on cur
Called == scanned > 0 /\ ~cur.excluded

\* cur is a target file: it opens and has a readable basic-info sheet
IsTarget == Called /\ cur.open = "ok"

LonCell == Get(cur.info, "lon", None)
LatCell == Get(cur.info, "lat", None)
ParkName == IF "name" \in DOMAIN cur.info THEN cur.info["name"].t ELSE cur.stem

\* both coordinate cells of cur hold a number
NumericCoords == LonCell.k = "num" /\ LatCell.k = "num"

\* the measurement step of cur fails somewhere
MeasFails ==
    /\ cur.meas.present
    /\ cur.env # "none" \/ (cur.meas.startTime /\ SortRaises(cur.meas.rows))

\* cur is a target file with valid coordinates and both sheets whose
\* measurement step succeeds
MeasSucceeds == IsTarget /\ NumericCoords /\ cur.meas.present /\ ~MeasFails

\* the loop has just gone through one more file
Scans == scanned' = scanned + 1

\* the markers made from file id
MarkersOf(id) == {i \in 1..Len(fg_target) : fg_target[i].src = id}

\* ------------------------------------------------------------------ properties

\* C1: once the loop of main() is over, the target feature group holds one
\* marker per file for which read_park_xlsx returned a record, whatever else
\* was scanned; count says the same.
C1_MarkersEqualReturned ==
    pc \in {"save", "done", "save_failed"} =>
        /\ Len(fg_target) = Cardinality(returned)
        /\ \A id \in 1..scanned : Cardinality(MarkersOf(id)) = IF id \in returned THEN 1 ELSE 0
        /\ count = Cardinality(returned)

\* one valid target file without measurement sheet, then a spreadsheet without
\* the basic-info sheet: one marker at (23, 120), no page
C1_Witness ==
    /\ pc = "done"
    /\ scanned > 1
    /\ returned = {1}
    /\ Len(fg_target) = 1
    /\ fg_target[1].location = <<23, 120>>
    /\ DOMAIN fs = {}
    /\ cur.open = "nosheet"

\* C2: a target file whose longitude or latitude cell is absent, empty or not
\* a number is rejected: no record, no marker, and a warning naming the park
\* and the file.
C2_BadCoordinatesRejected ==
    (IsTarget /\ ~NumericCoords) =>
        /\ ~ret.some
        /\ MarkersOf(cur.id) = {}
        /\ log # <<>>
        /\ log[Len(log)] = CoordWarning(ParkName, cur.stem \o <<".xlsx">>)

\* C3: no failure of a layer or of a park record aborts the run.
C3_RunNeverAborts == pc # "aborted"

\* C4: on a file that does not open or has no readable basic-info sheet,
\* read_park_xlsx returns no record and prints nothing; the loop goes on with
\* no marker added and no page written.
C4_NonTargetSkippedSilently ==
    [][(Scans /\ ~cur'.excluded /\ cur'.open # "ok") =>
          /\ ~ret'.some
          /\ log' = log
          /\ fg_target' = fg_target
          /\ count' = count
          /\ fs' = fs
          /\ pc' = "scan"]_vars

\* an unopenable file scanned after a file that left a marker
C4_Witness ==
    /\ Called
    /\ cur.open = "unopenable"
    /\ Len(fg_target) = 1
    /\ ~ret.some

\* C5: when the measurement step of a target file with valid coordinates
\* fails, the record is still returned, with an empty link; one warning is
\* printed, and the marker is added with a popup that has no link.
C5_MeasFailureKeepsRecord ==
    [][(Scans /\ IsTarget' /\ NumericCoords' /\ MeasFails') =>
          /\ ret'.some
          /\ ret'.raw_page_href = <<>>
          /\ ret'.park_name = ParkName'
          /\ log' = Append(log, MeasWarning(ParkName'))
          /\ Len(fg_target') = Len(fg_target) + 1
          /\ SubSeq(fg_target', 1, Len(fg_target)) = fg_target
          /\ fg_target'[Len(fg_target')].src = cur'.id
          /\ fg_target'[Len(fg_target')].popup.link = <<>>
          /\ pc' = "scan"]_vars

\* sort_values raised on a sheet of numbers and texts
C5_Witness ==
    /\ IsTarget
    /\ NumericCoords
    /\ cur.env = "none"
    /\ cur.meas.startTime
    /\ SortRaises(cur.meas.rows)
    /\ ret.some
    /\ MarkersOf(cur.id) # {}

\* the characters the specification allows in a slug
AllowedChar(c) == c \in {"a", "zh", "-", "_", "."}

\* C6: safe_slug(safe_slug(x)) = safe_slug(x), and safe_slug(x) holds allowed
\* characters only.
C6_SlugIdempotentAndSafe ==
    /\ slugPc \in {"once", "twice"} => \A i \in 1..Len(slugOut) : AllowedChar(slugOut[i])
    /\ slugPc = "twice" => slugOut2 = slugOut

\* a text with whitespace and a character outside the allowed set
C6_Witness ==
    /\ slugPc = "twice"
    /\ slugOut # slugIn
    /\ \E i \in 1..Len(slugIn) : slugIn[i] = "/"
    /\ \E i \in 1..Len(slugIn) : IsSpace(slugIn[i])

\* the name of the detail page of park name
PageName(name) == safe_slug(name) \o <<"_meas.html">>

\* C7: a target file with valid coordinates and both sheets whose measurement
\* step succeeds adds one marker and writes one page, data/<slug>_量測資料.html,
\* with as many rows as the sheet; the link is ./data/<that name>.
C7_OnePagePerSuccess ==
    [][(Scans /\ MeasSucceeds') =>
          /\ Len(fg_target') = Len(fg_target) + 1
          /\ fg_target'[Len(fg_target')].src = cur'.id
          /\ DOMAIN fs' = DOMAIN fs \cup {PageName(ParkName')}
          /\ \A x \in DOMAIN fs \ {PageName(ParkName')} : fs'[x] = fs[x]
          /\ fs'[PageName(ParkName')].src = cur'.id
          /\ fs'[PageName(ParkName')].whole
          /\ Len(fs'[PageName(ParkName')].table) = Len(cur'.meas.rows)
          /\ ret'.raw_page_href = <<"./data/">> \o PageName(ParkName')
          /\ fg_target'[Len(fg_target')].popup.link = ret'.raw_page_href]_vars

\* the park "a b" with a sheet of two rows: the page a_b_量測資料.html
C7_Witness ==
    /\ MeasSucceeds
    /\ ParkName = <<"a", " ", "b">>
    /\ Len(cur.meas.rows) = 2
    /\ DOMAIN fs = {<<"a", "_", "b", "_meas.html">>}
    /\ Len(fg_target) = 1

\* the page ret links to
LinkedPage == fs[CHOOSE x \in DOMAIN fs : Href(x) = ret.raw_page_href]

\* C8: the rows of the rendered table are the rows of the sheet; with a
\* StartTime column the rows that have a StartTime come in non-decreasing
\* order, before the rows that have none; without the column the rows keep
\* the order of the sheet.
C8_TableSorted ==
    MeasSucceeds =>
        LET t == LinkedPage.table
            rows == cur.meas.rows
        IN  /\ Len(t) = Len(rows)
            /\ \A r \in 1..Len(rows) : \E i \in 1..Len(t) : t[i] = r
            /\ cur.meas.startTime =>
                  \A i, j \in 1..Len(t) : i < j =>
                      /\ rows[t[j]].k # "nan" => rows[t[i]].k # "nan"
                      /\ (rows[t[i]].k = "num" /\ rows[t[j]].k = "num")
                            => rows[t[i]].n <= rows[t[j]].n
            /\ ~cur.meas.startTime => \A i \in 1..Len(t) : t[i] = i

\* a sheet whose rows the sort moves
C8_Witness ==
    /\ MeasSucceeds
    /\ cur.meas.startTime
    /\ Len(cur.meas.rows) > 1
    /\ LinkedPage.table[1] # 1

\* the rows of sheet with two numeric coordinates
NumericRows(sheet) ==
    {i \in 1..Len(sheet.rows) :
        /\ {"lat", "lon"} \subseteq sheet.cols
        /\ sheet.rows[i]["lat"].k = "num"
        /\ sheet.rows[i]["lon"].k = "num"}

\* C9: in the school layer and in the park-center layer, the rows with two
\* numeric coordinates, and no others, yield a point.
C9_InvalidRowsSkipped ==
    /\ pc = "center" => {fg_school[i].row : i \in 1..Len(fg_school)} = NumericRows(sheetIn)
    /\ pc = "scan" => {fg_center[i].row : i \in 1..Len(fg_center)} = NumericRows(sheetIn)

\* C10: at the end of a run, every marker with a link points to a page made
\* from the marker's own spreadsheet.
C10_PagesNeverOverwritten ==
    pc = "done" =>
        \A i \in 1..Len(fg_target) :
            fg_target[i].popup.link # <<>> =>
                \E x \in DOMAIN fs :
                    /\ Href(x) = fg_target[i].popup.link
                    /\ fs[x].src = fg_target[i].src

====
